---- MODULE Spec2Model ----
(***************************************************************************)
(* A model of the web-frontend support utilities of the repository:       *)
(*   src/src/lib/cors.ts       CORS header construction                    *)
(*   src/src/lib/security.ts   sanitisation, escaping, input validation    *)
(*   src/src/lib/ssr-utils.ts  SSR-safe storage / document / window guards *)
(*   src/unnamed/part_000      the error-handling guide (backoff formula,  *)
(*                             fallback rule, connection states) and the   *)
(*                             CSP utilities                               *)
(*                                                                         *)
(* JavaScript values are tagged records [type |-> ..., v |-> ...], so that *)
(* typeof, Array.isArray, === true and truthiness are computed, not        *)
(* assumed.  Header values are TLA+ strings; texts that are searched       *)
(* (validateInput, escapeHtml, the CSP header) are sequences of            *)
(* characters or of literal chunks.                                        *)
(***************************************************************************)
EXTENDS Integers, Sequences, FiniteSets, TLC

VARIABLES
  env,              \* "server" (no window/document) or "browser"
  hasCrypto,        \* window.crypto is present (browser only)
  nodeEnv,          \* process.env.NODE_ENV
  fn,               \* the utility called last ("none" before the first call)
  args,             \* its arguments
  ret,              \* the value it returned
  threw,            \* TRUE when the call raised an error instead of returning
  localStore,       \* the browser's localStorage   (key -> value or NoValue)
  sessionStore,     \* the browser's sessionStorage (key -> value or NoValue)
  written,          \* history: the keys setItem was ever called with
  connectionState,  \* connected | disconnected | reconnecting | failed
  reconnectAttempts,
  recentErrors,     \* the recent-error list
  useVanaBackend,   \* TRUE: primary (VANA) backend, FALSE: fallback provider
  networkDown,      \* the failure is persistent: no connection attempt succeeds
  retryAfter,       \* the delay scheduled before the next reconnect attempt
  lastError         \* the error handled last: [kind, retryable], or NoError

utilVars == <<env, hasCrypto, nodeEnv, fn, args, ret, threw,
              localStore, sessionStore, written>>
connVars == <<connectionState, reconnectAttempts, recentErrors,
              useVanaBackend, networkDown, retryAfter, lastError>>
vars == <<env, hasCrypto, nodeEnv, fn, args, ret, threw,
          localStore, sessionStore, written,
          connectionState, reconnectAttempts, recentErrors,
          useVanaBackend, networkDown, retryAfter, lastError>>

(***************************************************************************)
(* Bounds of the model.                                                    *)
(***************************************************************************)
MaxOrigins == 2
MaxFrags == 2
MaxNonceLen == 2
MaxAttempt == 6

(***************************************************************************)
(* JavaScript values.                                                      *)
(***************************************************************************)
Undefined == [type |-> "undefined"]
Null == [type |-> "null"]
Bool(b) == [type |-> "boolean", v |-> b]
Str(s) == [type |-> "string", v |-> s]
Num(n) == [type |-> "number", v |-> n]
Arr(a) == [type |-> "array", v |-> a]

\* Array.prototype.join on an array of strings.
RECURSIVE Join(_, _)
Join(arr, sep) ==
  IF Len(arr) = 0 THEN ""
  ELSE IF Len(arr) = 1 THEN arr[1]
  ELSE arr[1] \o sep \o Join(Tail(arr), sep)

SeqsUpTo(S, n) == UNION {[1..k -> S] : k \in 0..n}

(***************************************************************************)
(* cors.ts                                                                 *)
(***************************************************************************)
AllowOrigin == "Access-Control-Allow-Origin"
AllowMethods == "Access-Control-Allow-Methods"
AllowHeaders == "Access-Control-Allow-Headers"
AllowCredentials == "Access-Control-Allow-Credentials"

\* options = {} : every field undefined
EmptyCorsOptions ==
  [type |-> "object", origin |-> Undefined, methods |-> Undefined,
   allowedHeaders |-> Undefined, credentials |-> Undefined]

\* The empty header map: const headers = {}
NoHeaders == [h \in {} |-> ""]

\* options.origin[0] || '*'
FirstOriginOrWildcardLast(origins) ==
  IF Len(origins) = 0 \/ origins[Len(origins)] = "" THEN "*"
  ELSE origins[Len(origins)]
FirstOriginOrWildcard(origins) ==
  IF Len(origins) = 0 \/ origins[1] = "" THEN "*" ELSE origins[1]

\* the "Set origin" block
OriginHeaderTruthy(origin) ==
  IF (origin.type = "boolean" /\ origin.v = TRUE)
     \/ (origin.type = "string" /\ origin.v # "")
    THEN AllowOrigin :> "*"
  ELSE IF origin.type = "string"
    THEN AllowOrigin :> origin.v
  ELSE IF origin.type = "array"
    THEN AllowOrigin :> FirstOriginOrWildcard(origin.v)
  ELSE NoHeaders
OriginHeader(origin) ==
  IF origin.type = "boolean" /\ origin.v = TRUE
    THEN AllowOrigin :> "*"
  ELSE IF origin.type = "string"
    THEN AllowOrigin :> origin.v
  ELSE IF origin.type = "array"
    THEN AllowOrigin :> FirstOriginOrWildcard(origin.v)
  ELSE NoHeaders

\* the "Set methods" block (an array, even an empty one, is truthy)
MethodsHeader(methods) ==
  IF methods.type = "array"
    THEN AllowMethods :> Join(methods.v, ", ")
    ELSE AllowMethods :> "GET, POST, PUT, DELETE, OPTIONS"

\* the "Set allowed headers" block
AllowedHeadersHeader(allowedHeaders) ==
  IF allowedHeaders.type = "array"
    THEN AllowHeaders :> Join(allowedHeaders.v, ", ")
    ELSE AllowHeaders :> "Content-Type, Authorization, X-Requested-With"

\* the "Set credentials" block
CredentialsHeaderIfDefined(credentials) ==
  IF credentials.type = "boolean"
    THEN AllowCredentials :> "true"
    ELSE NoHeaders
CredentialsHeader(credentials) ==
  IF credentials.type = "boolean" /\ credentials.v = TRUE
    THEN AllowCredentials :> "true"
    ELSE NoHeaders

getCorsHeaders(options) ==
  LET opts == IF options.type = "undefined" THEN EmptyCorsOptions ELSE options
  IN  OriginHeader(opts.origin)
        @@ MethodsHeader(opts.methods)
        @@ AllowedHeadersHeader(opts.allowedHeaders)
        @@ CredentialsHeader(opts.credentials)

isValidOrigin(origin, allowedOrigins) ==
  IF origin = "" THEN FALSE
  ELSE (\E i \in 1..Len(allowedOrigins) : allowedOrigins[i] = origin)
       \/ (\E i \in 1..Len(allowedOrigins) : allowedOrigins[i] = "*")

getDefaultCorsOptions(node_env) ==
  [type |-> "object",
   origin |-> IF node_env = "development" THEN Bool(TRUE)
              ELSE Arr(<<"http://localhost:3000", "https://your-domain.com">>),
   methods |-> Arr(<<"GET", "POST", "PUT", "DELETE", "OPTIONS">>),
   allowedHeaders |-> Arr(<<"Content-Type", "Authorization", "X-Requested-With">>),
   credentials |-> Bool(TRUE)]

\* Inputs of the CORS functions.
OriginStrings == {"", "*", "https://a.example", "https://b.example"}
OriginValues ==
  {Undefined, Bool(TRUE), Bool(FALSE)}
    \cup {Str(s) : s \in OriginStrings}
    \cup {Arr(a) : a \in SeqsUpTo(OriginStrings \ {"*"}, MaxOrigins)}
StringLists == {<<>>, <<"GET">>, <<"GET", "POST">>}
ListValues == {Undefined} \cup {Arr(a) : a \in StringLists}
CredentialValues == {Undefined, Bool(TRUE), Bool(FALSE)}
CorsOptionValues ==
  {Undefined} \cup
  {[type |-> "object", origin |-> o, methods |-> m,
    allowedHeaders |-> h, credentials |-> c] :
     o \in OriginValues, m \in ListValues, h \in ListValues,
     c \in CredentialValues}

(***************************************************************************)
(* Texts that are searched are sequences of one-character strings.         *)
(***************************************************************************)
UpperCase == <<"A","B","C","D","E","F","G","H","I","J","K","L","M",
               "N","O","P","Q","R","S","T","U","V","W","X","Y","Z">>
LowerCase == <<"a","b","c","d","e","f","g","h","i","j","k","l","m",
               "n","o","p","q","r","s","t","u","v","w","x","y","z">>
Digits == {"0","1","2","3","4","5","6","7","8","9"}

\* the /i flag: both sides are compared in lower case
ToLower(c) ==
  IF \E i \in 1..26 : UpperCase[i] = c
    THEN LowerCase[CHOOSE i \in 1..26 : UpperCase[i] = c]
    ELSE c

\* \w  and  \s
IsWordChar(c) ==
  \/ \E i \in 1..26 : UpperCase[i] = c \/ LowerCase[i] = c
  \/ c \in Digits
  \/ c = "_"
IsSpaceChar(c) == c \in {" ", "\t", "\n", "\r"}

\* the literal occurs in the text at some position (case-sensitive)
Includes(text, lit) ==
  \E i \in 1..(Len(text) - Len(lit) + 1) :
    \A k \in 1..Len(lit) : text[i + k - 1] = lit[k]

\* a literal pattern under the /i flag matches at position i
MatchesLiteralAt(text, lit, i) ==
  /\ i + Len(lit) - 1 <= Len(text)
  /\ \A k \in 1..Len(lit) : ToLower(text[i + k - 1]) = ToLower(lit[k])

TestLiteral(text, lit) ==
  \E i \in 1..Len(text) : MatchesLiteralAt(text, lit, i)

ScriptTag == <<"<","s","c","r","i","p","t">>
JavascriptUrl == <<"j","a","v","a","s","c","r","i","p","t",":">>
DataHtmlUrl == <<"d","a","t","a",":","t","e","x","t","/","h","t","m","l">>

\* /on\w+\s*=/i : "on", one or more word characters (through position j),
\* any white space, "=" (at position k)
TestEventHandler(text) ==
  \E i \in 1..Len(text) :
    /\ MatchesLiteralAt(text, <<"o","n">>, i)
    /\ \E j \in (i + 2)..Len(text) :
         /\ \A m \in (i + 2)..j : IsWordChar(text[m])
         /\ \E k \in (j + 1)..Len(text) :
              /\ \A m \in (j + 1)..(k - 1) : IsSpaceChar(text[m])
              /\ text[k] = "="

\* maliciousPatterns.some(pattern => pattern.test(input))
MatchesMaliciousAnchored(text) ==
  \/ MatchesLiteralAt(text, ScriptTag, 1)
  \/ MatchesLiteralAt(text, JavascriptUrl, 1)
  \/ TestEventHandler(text)
  \/ MatchesLiteralAt(text, DataHtmlUrl, 1)
MatchesMalicious(text) ==
  \/ TestLiteral(text, ScriptTag)
  \/ TestLiteral(text, JavascriptUrl)
  \/ TestEventHandler(text)
  \/ TestLiteral(text, DataHtmlUrl)

\* input.length > maxLength ; a comparison with NaN is false
DefaultMaxLength == 1000
ExceedsLength(text, maxLength) ==
  LET limit == IF maxLength.type = "undefined" THEN Num(DefaultMaxLength)
               ELSE maxLength
  IN  limit.type = "number" /\ Len(text) > limit.v

(***************************************************************************)
(* security.ts                                                             *)
(***************************************************************************)
\* A result is a returned value or a raised error.
Returns(v) == [threw |-> FALSE, value |-> v]
Throws(e) == [threw |-> TRUE, value |-> Str(e)]

validateInput(input, maxLength) ==
  IF input.type # "string" \/ Len(input.v) = 0 THEN FALSE
  ELSE IF ExceedsLength(input.v, maxLength) THEN FALSE
  ELSE ~MatchesMalicious(input.v)

\* div.textContent = text; return div.innerHTML : the HTML serialisation of
\* a text node escapes &, < and > (and the no-break space)
EscapeChar(c) ==
  IF c = "&" THEN <<"&","a","m","p",";">>
  ELSE IF c = "<" THEN <<"&","l","t",";">>
  ELSE IF c = ">" THEN <<"&","g","t",";">>
  ELSE <<c>>

RECURSIVE SerializeText(_)
SerializeText(text) ==
  IF Len(text) = 0 THEN <<>>
  ELSE EscapeChar(Head(text)) \o SerializeText(Tail(text))

\* document is read unguarded: a ReferenceError where there is none
escapeHtml(text, e) ==
  IF e = "server" THEN Throws("ReferenceError: document is not defined")
  ELSE Returns(Str(SerializeText(text)))

\* DOMPurify.sanitize is a library outside the repository: `purified` is
\* whatever it returns for html
sanitizeHtml(html, e, purified) ==
  IF e = "server" THEN Returns(Str(html)) ELSE Returns(Str(purified))

\* Math.random().toString(36): "0" for 0, else "0." and the base-36 digits
\* of the fraction (`digits`, the random draw)
RandomToString36(digits) ==
  IF Len(digits) = 0 THEN <<"0">> ELSE <<"0", ".">> \o digits

\* String.prototype.substring(start, end), 0-based, end exclusive
Substring(text, start, end) ==
  LET hi == IF end > Len(text) THEN Len(text) ELSE end
  IN  IF start >= hi THEN <<>> ELSE SubSeq(text, start + 1, hi)

\* Math.random().toString(36).substring(2, 15)
RandomChunk(digits) == Substring(RandomToString36(digits), 2, 15)

HexDigits == <<"0","1","2","3","4","5","6","7","8","9","a","b","c","d","e","f">>

\* byte.toString(16).padStart(2, '0')
ByteToHex(byte) ==
  LET str == IF byte < 16 THEN <<HexDigits[byte + 1]>>
             ELSE <<HexDigits[(byte \div 16) + 1], HexDigits[(byte % 16) + 1]>>
  IN  IF Len(str) < 2 THEN <<"0">> \o str ELSE str

RECURSIVE HexOfBytes(_)
HexOfBytes(bytes) ==
  IF Len(bytes) = 0 THEN <<>>
  ELSE ByteToHex(Head(bytes)) \o HexOfBytes(Tail(bytes))

\* new Uint8Array(32)
TokenBytes == 32

\* `bytes` is what crypto.getRandomValues filled in; d1, d2 the two
\* Math.random() draws of the fallback
generateSecureToken(e, crypto, bytes, d1, d2) ==
  IF e = "browser" /\ crypto
    THEN Returns(Str(HexOfBytes(bytes)))
    ELSE Returns(Str(RandomChunk(d1) \o RandomChunk(d2)))

(***************************************************************************)
(* Content Security Policy utilities (part_000).  The header is a sequence *)
(* of chunks: each literal piece of the source is one chunk, the nonce is  *)
(* the sequence of its own pieces.                                         *)
(***************************************************************************)
generateNonce(d1, d2) == Returns(Str(RandomChunk(d1) \o RandomChunk(d2)))

Sep == "; "

\* the script-src source that depends on the nonce:
\*   nonce ? `'nonce-${nonce}'` : "'unsafe-inline'"   ("" is falsy)
NonceSourceWhenDefined(nonce) ==
  IF nonce.type = "string"
    THEN <<"'nonce-">> \o nonce.v \o <<"'">>
    ELSE <<"'unsafe-inline'">>
NonceSource(nonce) ==
  IF nonce.type = "string" /\ Len(nonce.v) > 0
    THEN <<"'nonce-">> \o nonce.v \o <<"'">>
    ELSE <<"'unsafe-inline'">>

cspDirectives(nonce) ==
  << <<"default-src", " ", "'self'">>,
     <<"script-src", " ", "'self'", " ", "'unsafe-eval'", " ">> \o NonceSource(nonce),
     <<"style-src", " ", "'self'", " ", "'unsafe-inline'">>,
     <<"img-src", " ", "'self'", " ", "data:", " ", "blob:">>,
     <<"font-src", " ", "'self'">>,
     <<"connect-src", " ", "'self'", " ", "ws:", " ", "wss:">>,
     <<"frame-ancestors", " ", "'none'">>,
     <<"base-uri", " ", "'self'">>,
     <<"form-action", " ", "'self'">> >>

\* Array.prototype.join on an array of chunk sequences
RECURSIVE JoinChunks(_, _)
JoinChunks(arr, sep) ==
  IF Len(arr) = 0 THEN <<>>
  ELSE IF Len(arr) = 1 THEN arr[1]
  ELSE arr[1] \o <<sep>> \o JoinChunks(Tail(arr), sep)

getCSPHeader(nonce) == Returns(Str(JoinChunks(cspDirectives(nonce), Sep)))

(***************************************************************************)
(* ssr-utils.ts                                                            *)
(***************************************************************************)
isServer(e) == e = "server"
isClient(e) == e # "server"

\* the object literal returned on the server; it closes over nothing
NoopStorage == [kind |-> "noop"]
\* the browser global (localStorage / sessionStorage)
RealStorage(which) == [kind |-> "real", which |-> which]

safeLocalStorageUnguarded(e) == RealStorage("local")
safeLocalStorage(e) ==
  IF isServer(e) THEN NoopStorage ELSE RealStorage("local")

safeSessionStorage(e) ==
  IF isServer(e) THEN NoopStorage ELSE RealStorage("session")

safeDocument(e) == IF isServer(e) THEN Null ELSE [type |-> "object", v |-> "document"]
safeWindow(e) == IF isServer(e) THEN Null ELSE [type |-> "object", v |-> "window"]

\* The methods of the object a storage accessor returned.  `store` is the
\* browser storage the call works on (key -> value, NoValue when absent).
\* Result: the outcome and the store afterwards.
StorageKeys == {"k1", "k2"}
StorageValues == {"v1", "v2"}
NoValue == "(absent)"
EmptyStore == [k \in StorageKeys |-> NoValue]

\* getItem: () => null, setItem: () => {}, removeItem: () => {}, clear: () => {}
NoopCall(op) == IF op = "getItem" THEN Returns(Null) ELSE Returns(Undefined)

\* Web Storage, reached through the global; on the server the global is
\* not defined and reading it raises a ReferenceError
RealCall(op, key, value, store, e) ==
  IF e = "server"
    THEN [out |-> Throws("ReferenceError: storage is not defined"), store |-> store]
  ELSE IF op = "getItem"
    THEN [out |-> Returns(IF store[key] = NoValue THEN Null ELSE Str(store[key])),
          store |-> store]
  ELSE IF op = "setItem"
    THEN [out |-> Returns(Undefined), store |-> [store EXCEPT ![key] = value]]
  ELSE IF op = "removeItem"
    THEN [out |-> Returns(Undefined), store |-> [store EXCEPT ![key] = NoValue]]
  ELSE [out |-> Returns(Undefined), store |-> EmptyStore]

StorageCall(obj, op, key, value, store, e) ==
  IF obj.kind = "noop"
    THEN [out |-> NoopCall(op), store |-> store]
    ELSE RealCall(op, key, value, store, e)

(***************************************************************************)
(* The error-handling guide (part_000): backoff, fallback, error list.     *)
(***************************************************************************)
MaxDelay == 30000
DefaultBaseDelay == 1000
JitterRange == 1000

RECURSIVE Pow2(_)
Pow2(n) == IF n = 0 THEN 1 ELSE 2 * Pow2(n - 1)

Min(a, b) == IF a < b THEN a ELSE b

\* `jitter` is Math.random() * 1000, a value in [0, 1000)
calculateBackoffDelay(attempt, baseDelay, jitter) ==
  LET base == IF baseDelay.type = "undefined" THEN DefaultBaseDelay ELSE baseDelay.v
      delay == Min(base * Pow2(attempt), MaxDelay)
  IN  delay + jitter

NoError == [kind |-> "none", retryable |-> FALSE]
\* SSEConnectionError, VanaBackendError, StreamParsingError
ErrorKinds == {"connection", "backend", "parsing"}

ConnectionStates == {"connected", "disconnected", "reconnecting", "failed"}

\* "Reconnecting... (2/5)"
MaxReconnectAttempts == 5
\* "Error arrays limited to last 5 errors"
MaxErrors == 5

\* if (!isRetryableError(error) || reconnectAttempts >= maxReconnectAttempts)
ShouldFallbackOffByOne(retryable, attempts) ==
  ~retryable \/ attempts > MaxReconnectAttempts
ShouldFallback(retryable, attempts) ==
  ~retryable \/ attempts >= MaxReconnectAttempts

\* the error list keeps the last MaxErrors entries
PushErrorUnbounded(errors, e) == Append(errors, e)
PushError(errors, e) ==
  LET all == Append(errors, e)
  IN  IF Len(all) > MaxErrors
        THEN SubSeq(all, Len(all) - MaxErrors + 1, Len(all))
        ELSE all

\* onConnectionStateChange: case 'failed': setUseVanaBackend(false)
OnConnectionStateChange(state, useVana) ==
  IF state = "failed" THEN FALSE ELSE useVana

(***************************************************************************)
(* Inputs.                                                                 *)
(***************************************************************************)
NaN == [type |-> "nan"]

RECURSIVE Concat(_)
Concat(parts) == IF Len(parts) = 0 THEN <<>> ELSE Head(parts) \o Concat(Tail(parts))

Fragments ==
  { ScriptTag, <<"<","S","c","R","I","P","T">>, JavascriptUrl, DataHtmlUrl,
    <<"o","n">>, <<"O","N","c","l","i","c","k">>, <<"=">>, <<" ">>,
    <<"x">>, <<"<">>, <<"a","&","b">> }
InputTexts == {Concat(parts) : parts \in SeqsUpTo(Fragments, MaxFrags)}
InputValues == {Str(t) : t \in InputTexts} \cup {Undefined, Null, Num(42)}
MaxLengthValues == {Undefined, NaN, Num(-1), Num(0), Num(3), Num(8), Num(1000)}

HtmlTexts == SeqsUpTo({"a", "<", ">", "&"}, 2)
RandomDigits == SeqsUpTo({"0", "z"}, 2)
ByteSamples == {0, 10, 255}
RandomBytes(b1, b2) == [i \in 1..TokenBytes |-> IF i % 2 = 1 THEN b1 ELSE b2]

NonceChunks == {"a", "b", "'unsafe-inline'", Sep}
NonceValues == {Undefined} \cup {Str(n) : n \in SeqsUpTo(NonceChunks, MaxNonceLen)}

BaseDelayValues == {Undefined, Num(0), Num(1), Num(500), Num(1000), Num(30000), Num(40000)}
JitterSamples == {0, 1, JitterRange \div 2, JitterRange - 1}

(***************************************************************************)
(* Calls of the stateless utilities.                                       *)
(***************************************************************************)
InitConn ==
  /\ connectionState = "disconnected"
  /\ reconnectAttempts = 0
  /\ recentErrors = <<>>
  /\ useVanaBackend = TRUE
  /\ networkDown \in BOOLEAN
  /\ retryAfter = 0
  /\ lastError = NoError

InitEnv ==
  /\ env \in {"server", "browser"}
  /\ hasCrypto \in (IF env = "browser" THEN BOOLEAN ELSE {FALSE})
  /\ nodeEnv \in {"development", "production"}
  /\ fn = "none"
  /\ args = <<>>
  /\ ret = Undefined
  /\ threw = FALSE
  /\ localStore = EmptyStore
  /\ sessionStore = EmptyStore
  /\ written = {}

Init ==
  /\ InitEnv
  /\ InitConn
  /\ networkDown = FALSE

\* One call on a fresh context: what was called, with what, and how it
\* ended.  The utilities keep no state, so one call per behaviour covers them.
Call(f, a, result) ==
  /\ fn' = f
  /\ args' = a
  /\ ret' = result.value
  /\ threw' = result.threw
  /\ UNCHANGED <<env, hasCrypto, nodeEnv, localStore, sessionStore, written>>
  /\ UNCHANGED connVars

CallGetCorsHeaders ==
  /\ fn = "none"
  /\ \E o \in CorsOptionValues :
       Call("getCorsHeaders", [options |-> o], Returns(getCorsHeaders(o)))

CallIsValidOrigin ==
  /\ fn = "none"
  /\ \E o \in OriginStrings, allowed \in SeqsUpTo(OriginStrings, MaxOrigins) :
       Call("isValidOrigin", [origin |-> o, allowedOrigins |-> allowed],
            Returns(Bool(isValidOrigin(o, allowed))))

CallGetDefaultCorsOptions ==
  /\ fn = "none"
  /\ Call("getDefaultCorsOptions", <<>>, Returns(getDefaultCorsOptions(nodeEnv)))

CallGenerateNonce ==
  /\ fn = "none"
  /\ \E d1 \in RandomDigits, d2 \in RandomDigits :
       Call("generateNonce", <<>>, generateNonce(d1, d2))

CallGetCSPHeader ==
  /\ fn = "none"
  /\ \E n \in NonceValues :
       Call("getCSPHeader", [nonce |-> n], getCSPHeader(n))

CallSanitizeHtml ==
  /\ fn = "none"
  /\ \E html \in HtmlTexts, purified \in HtmlTexts :
       Call("sanitizeHtml", [html |-> html], sanitizeHtml(html, env, purified))

CallEscapeHtml ==
  /\ fn = "none"
  /\ \E text \in HtmlTexts :
       Call("escapeHtml", [text |-> text], escapeHtml(text, env))

CallValidateInput ==
  /\ fn = "none"
  /\ \E input \in InputValues, maxLength \in MaxLengthValues :
       Call("validateInput", [input |-> input, maxLength |-> maxLength],
            Returns(Bool(validateInput(input, maxLength))))

CallGenerateSecureToken ==
  /\ fn = "none"
  /\ \E b1 \in ByteSamples, b2 \in ByteSamples,
        d1 \in RandomDigits, d2 \in RandomDigits :
       Call("generateSecureToken", <<>>,
            generateSecureToken(env, hasCrypto, RandomBytes(b1, b2), d1, d2))

CallIsServer ==
  /\ fn = "none"
  /\ Call("isServer", <<>>, Returns(Bool(isServer(env))))
CallIsClient ==
  /\ fn = "none"
  /\ Call("isClient", <<>>, Returns(Bool(isClient(env))))
CallSafeLocalStorage ==
  /\ fn = "none"
  /\ Call("safeLocalStorage", <<>>, Returns(safeLocalStorage(env)))
CallSafeSessionStorage ==
  /\ fn = "none"
  /\ Call("safeSessionStorage", <<>>, Returns(safeSessionStorage(env)))
CallSafeDocument ==
  /\ fn = "none"
  /\ Call("safeDocument", <<>>, Returns(safeDocument(env)))
CallSafeWindow ==
  /\ fn = "none"
  /\ Call("safeWindow", <<>>, Returns(safeWindow(env)))

CallCalculateBackoffDelay ==
  /\ fn = "none"
  /\ \E attempt \in 0..MaxAttempt, baseDelay \in BaseDelayValues, jitter \in JitterSamples :
       Call("calculateBackoffDelay", [attempt |-> attempt, baseDelay |-> baseDelay],
            Returns(Num(calculateBackoffDelay(attempt, baseDelay, jitter))))

Next ==
  \/ CallGetCorsHeaders
  \/ CallIsValidOrigin
  \/ CallGetDefaultCorsOptions
  \/ CallGenerateNonce
  \/ CallGetCSPHeader
  \/ CallSanitizeHtml
  \/ CallEscapeHtml
  \/ CallValidateInput
  \/ CallGenerateSecureToken
  \/ CallIsServer
  \/ CallIsClient
  \/ CallSafeLocalStorage
  \/ CallSafeSessionStorage
  \/ CallSafeDocument
  \/ CallSafeWindow
  \/ CallCalculateBackoffDelay

Spec == Init /\ [][Next]_vars

(***************************************************************************)
(* Calls of the methods of the objects the storage accessors return.       *)
(***************************************************************************)
InitStorage ==
  /\ Init
  /\ hasCrypto = FALSE
  /\ nodeEnv = "production"

StorageOf(which, e) ==
  IF which = "local" THEN safeLocalStorage(e) ELSE safeSessionStorage(e)

\* safeLocalStorage().op(key, value) or safeSessionStorage().op(key, value)
StorageMethod(which, op, key, value) ==
  LET obj == StorageOf(which, env)
      store == IF which = "local" THEN localStore ELSE sessionStore
      r == StorageCall(obj, op, key, value, store, env)
  IN  /\ fn' = "storage"
      /\ args' = [which |-> which, op |-> op, key |-> key, value |-> value]
      /\ ret' = r.out.value
      /\ threw' = r.out.threw
      /\ localStore' = IF which = "local" THEN r.store ELSE localStore
      /\ sessionStore' = IF which = "session" THEN r.store ELSE sessionStore
      /\ written' = IF op = "setItem" THEN written \cup {<<which, key>>} ELSE written

StorageNames == {"local", "session"}

GetItem ==
  /\ \E which \in StorageNames, key \in StorageKeys :
       StorageMethod(which, "getItem", key, NoValue)
  /\ UNCHANGED <<env, hasCrypto, nodeEnv>>
  /\ UNCHANGED connVars

SetItem ==
  /\ \E which \in StorageNames, key \in StorageKeys, value \in StorageValues :
       StorageMethod(which, "setItem", key, value)
  /\ UNCHANGED <<env, hasCrypto, nodeEnv>>
  /\ UNCHANGED connVars

RemoveItem ==
  /\ \E which \in StorageNames, key \in StorageKeys :
       StorageMethod(which, "removeItem", key, NoValue)
  /\ UNCHANGED <<env, hasCrypto, nodeEnv>>
  /\ UNCHANGED connVars

Clear ==
  /\ \E which \in StorageNames :
       StorageMethod(which, "clear", NoValue, NoValue)
  /\ UNCHANGED <<env, hasCrypto, nodeEnv>>
  /\ UNCHANGED connVars

NextStorage == GetItem \/ SetItem \/ RemoveItem \/ Clear

StorageSpec == InitStorage /\ [][NextStorage]_vars

(***************************************************************************)
(* The streaming connection of the guide: connection events, reconnect     *)
(* with backoff, fallback to the secondary provider.                       *)
(***************************************************************************)
InitConnection ==
  /\ InitEnv
  /\ env = "browser"
  /\ hasCrypto = TRUE
  /\ nodeEnv = "production"
  /\ InitConn

ConnJitterSamples == {0, JitterRange - 1}

\* A stream error on the primary backend (SSEConnectionError or
\* VanaBackendError): fall back, or count the attempt and schedule a retry.
StreamError ==
  /\ useVanaBackend
  /\ connectionState \in {"disconnected", "connected", "reconnecting"}
  /\ networkDown => connectionState # "connected"
  /\ \E kind \in ErrorKinds \ {"parsing"}, retryable \in BOOLEAN,
        jitter \in ConnJitterSamples :
       /\ lastError' = [kind |-> kind, retryable |-> retryable]
       /\ recentErrors' = PushError(recentErrors, kind)
       /\ IF ShouldFallback(retryable, reconnectAttempts)
            THEN /\ connectionState' = "failed"
                 /\ useVanaBackend' = OnConnectionStateChange("failed", useVanaBackend)
                 /\ UNCHANGED <<reconnectAttempts, retryAfter>>
            ELSE /\ connectionState' = "reconnecting"
                 /\ reconnectAttempts' = reconnectAttempts + 1
                 /\ retryAfter' =
                      calculateBackoffDelay(reconnectAttempts, Undefined, jitter)
                 /\ UNCHANGED useVanaBackend
  /\ UNCHANGED <<networkDown>>
  /\ UNCHANGED utilVars

\* A malformed event (StreamParsingError): the event is skipped and the
\* connection is kept.
ParsingError ==
  /\ useVanaBackend
  /\ connectionState = "connected"
  /\ lastError' = [kind |-> "parsing", retryable |-> FALSE]
  /\ recentErrors' = PushError(recentErrors, "parsing")
  /\ UNCHANGED <<connectionState, reconnectAttempts, useVanaBackend,
                 networkDown, retryAfter>>
  /\ UNCHANGED utilVars

\* The stream is (re)established: the attempt counter is reset.
Connected ==
  /\ useVanaBackend
  /\ ~networkDown
  /\ connectionState \in {"disconnected", "reconnecting"}
  /\ connectionState' = "connected"
  /\ reconnectAttempts' = 0
  /\ retryAfter' = 0
  /\ UNCHANGED <<recentErrors, useVanaBackend, networkDown, lastError>>
  /\ UNCHANGED utilVars

\* The user's "Retry Connection" button after a failure.
RetryConnection ==
  /\ connectionState = "failed"
  /\ connectionState' = "reconnecting"
  /\ reconnectAttempts' = 0
  /\ retryAfter' = 0
  /\ useVanaBackend' = TRUE
  /\ UNCHANGED <<recentErrors, networkDown, lastError>>
  /\ UNCHANGED utilVars

NextConnection == StreamError \/ ParsingError \/ Connected \/ RetryConnection

ConnectionSpec == InitConnection /\ [][NextConnection]_vars

\* An error event is delivered while the primary backend is in use and the
\* network stays down; a connection attempt that can succeed does.
FairConnectionSpec ==
  /\ ConnectionSpec
  /\ WF_vars(StreamError)

(***************************************************************************)
(* Properties.                                                             *)
(***************************************************************************)
IsArrayOriginCall ==
  /\ fn = "getCorsHeaders"
  /\ args.options.type = "object"
  /\ args.options.origin.type = "array"

\* C1 (as stated): with an array origin, Access-Control-Allow-Origin is
\* exactly the first element of the array, for every array, the empty array
\* and an array whose first element is the empty string included.
C1_ArrayYieldsFirstElement ==
  IsArrayOriginCall =>
    /\ AllowOrigin \in DOMAIN ret
    /\ Len(args.options.origin.v) > 0
    /\ ret[AllowOrigin] = args.options.origin.v[1]

\* C1 (amended): with an array origin, Access-Control-Allow-Origin is the
\* first element of the array when the array is not empty and that element
\* is not the empty string, and the wildcard "*" otherwise.
C1_ArrayYieldsFirstElementOrWildcard ==
  IsArrayOriginCall =>
    LET origins == args.options.origin.v
    IN  /\ AllowOrigin \in DOMAIN ret
        /\ (Len(origins) > 0 /\ origins[1] # "") => ret[AllowOrigin] = origins[1]
        /\ (Len(origins) = 0 \/ origins[1] = "") => ret[AllowOrigin] = "*"

C1_Witness ==
  /\ IsArrayOriginCall
  /\ Len(args.options.origin.v) = 2
  /\ args.options.origin.v[1] # ""
  /\ args.options.origin.v[2] # args.options.origin.v[1]
  /\ ret[AllowOrigin] = args.options.origin.v[1]

\* C2: no utility throws: every call of an exported function returns a
\* value, in the server context and in the browser context.
C2_NoUtilityThrows == fn # "none" => ~threw

\* C3: the value calculateBackoffDelay returns (exponential term plus
\* jitter) is at most 30000 ms, for every attempt >= 0 and every base delay.
C3_DelayAtMost30s ==
  fn = "calculateBackoffDelay" => ret.v <= 30000

\* C4: validateInput returns false for every input that contains "<script",
\* for every input longer than maxLength, and for the empty string,
\* whatever maxLength is.
C4_ValidateInputRejects ==
  (fn = "validateInput" /\ args.input.type = "string") =>
    LET input == args.input.v
    IN  ( \/ Includes(input, ScriptTag)
          \/ ExceedsLength(input, args.maxLength)
          \/ Len(input) = 0 )
        => (~threw /\ ret = Bool(FALSE))

C4_Witness ==
  /\ fn = "validateInput"
  /\ args.input.type = "string"
  /\ Includes(args.input.v, ScriptTag)
  /\ ~MatchesLiteralAt(args.input.v, ScriptTag, 1)
  /\ ~ExceedsLength(args.input.v, args.maxLength)
  /\ ret = Bool(FALSE)

\* C5: outside a browser context the objects safeLocalStorage and
\* safeSessionStorage return are inert: after any sequence of setItem,
\* removeItem, clear and getItem calls no call has thrown, every getItem
\* returned null (also for a key set earlier), and nothing is retained.
C5_ServerStorageInert ==
  (env = "server" /\ fn = "storage") =>
    /\ ~threw
    /\ args.op = "getItem" => ret = Null
    /\ args.op # "getItem" => ret = Undefined
    /\ localStore = EmptyStore
    /\ sessionStore = EmptyStore

C5_Witness ==
  /\ env = "server"
  /\ fn = "storage"
  /\ args.op = "getItem"
  /\ <<args.which, args.key>> \in written
  /\ ret = Null

\* C6: Access-Control-Allow-Origin is "*" when origin is boolean true and
\* exactly the given string when origin is a string, whatever the methods,
\* allowedHeaders and credentials options are.
C6_OriginTrueOrString ==
  (fn = "getCorsHeaders" /\ args.options.type = "object") =>
    LET origin == args.options.origin
    IN  /\ (origin.type = "boolean" /\ origin.v = TRUE) =>
              (AllowOrigin \in DOMAIN ret /\ ret[AllowOrigin] = "*")
        /\ origin.type = "string" =>
              (AllowOrigin \in DOMAIN ret /\ ret[AllowOrigin] = origin.v)

C6_Witness ==
  /\ fn = "getCorsHeaders"
  /\ args.options.type = "object"
  /\ args.options.origin = Str("https://a.example")
  /\ args.options.methods.type = "array"
  /\ args.options.credentials = Bool(TRUE)
  /\ ret[AllowOrigin] = "https://a.example"

CredentialsOption ==
  IF args.options.type = "object" THEN args.options.credentials ELSE Undefined

\* C7: the header Access-Control-Allow-Credentials is present with value
\* "true" whenever the credentials option is true, and absent when it is
\* false or not given, for every origin option (the wildcard included).
C7_CredentialsHeader ==
  fn = "getCorsHeaders" =>
    IF CredentialsOption = Bool(TRUE)
      THEN AllowCredentials \in DOMAIN ret /\ ret[AllowCredentials] = "true"
      ELSE AllowCredentials \notin DOMAIN ret

C7_Witness ==
  /\ fn = "getCorsHeaders"
  /\ args.options.type = "object"
  /\ args.options.origin = Bool(TRUE)
  /\ args.options.credentials = Bool(TRUE)
  /\ ret[AllowOrigin] = "*"
  /\ ret[AllowCredentials] = "true"

\* Reading a header back: the directives between the "; " separators.
RECURSIVE SplitOn(_, _)
SplitOn(text, sep) ==
  IF \E i \in 1..Len(text) : text[i] = sep
    THEN LET i == CHOOSE j \in 1..Len(text) :
                    text[j] = sep /\ \A k \in 1..(j - 1) : text[k] # sep
         IN  <<SubSeq(text, 1, i - 1)>> \o SplitOn(SubSeq(text, i + 1, Len(text)), sep)
    ELSE <<text>>

IsScriptSrc(directive) == Len(directive) > 0 /\ directive[1] = "script-src"
DefaultSrcSelf == <<"default-src", " ", "'self'">>
UnsafeInline == <<"'unsafe-inline'">>
NonceToken(nonce) == <<"'nonce-">> \o nonce \o <<"'">>

\* the header built without a nonce, to compare the other directives with
HeaderWithoutNonce == SplitOn(getCSPHeader(Undefined).value.v, Sep)

\* a nonce that does not itself spell a CSP source or a separator
IsPlainNonce(nonce) ==
  /\ nonce.type = "string"
  /\ Len(nonce.v) > 0
  /\ \A i \in 1..Len(nonce.v) : nonce.v[i] \notin {"'unsafe-inline'", Sep}

CspShape(directives) ==
  /\ ~threw
  /\ Includes(ret.v, DefaultSrcSelf)
  /\ \E i \in 1..Len(directives) : IsScriptSrc(directives[i])
  /\ Len(directives) = Len(HeaderWithoutNonce)
  /\ \A i \in 1..Len(directives) :
       ~IsScriptSrc(directives[i]) => directives[i] = HeaderWithoutNonce[i]

C10_ErrorListCappedCounterMonotonic ==
  /\ [](connectionState \in ConnectionStates)
  /\ [](Len(recentErrors) <= 5)
  /\ [][reconnectAttempts' >= reconnectAttempts \/ reconnectAttempts' = 0]_vars

C10_Witness ==
  /\ connectionState = "connected"
  /\ Len(recentErrors) = 5
  /\ recentErrors[5] # "parsing"
  /\ lastError.retryable
  /\ reconnectAttempts = 0

====
